---- MODULE Spec2Model ----
(***************************************************************************)
(* Model of the pushd crate (src/src/lib.rs): the Pushd guard, its two     *)
(* constructors, pop() and Drop, run against a process-wide current        *)
(* directory and a filesystem whose directories can vanish or lose their   *)
(* permissions while a guard is alive.                                     *)
(***************************************************************************)
EXTENDS Integers, Sequences, FiniteSets, TLC

\* ---------------------------------------------------------------- bounds
MaxPops == 2        \* explicit pop() calls per guard
MaxEnv == 2         \* steps taken by code other than the guard

\* ------------------------------------------------------------ the world
Dirs == {"/work", "/tmp/x", "/tmp/y"}
\* The Pushd values followed.  Whatever else changes the current directory
\* while one is alive, another Pushd included, is a step of EnvChdir.
Guards == {1}

\* io::ErrorKind values a directory switch can fail with
ErrorKinds == {"NotFound", "PermissionDenied", "NotADirectory"}
DirOk == "Ok"
DirStatus == {DirOk} \cup ErrorKinds

\* Display of the io::Error of each kind
OsText(kind) ==
    CASE kind = "NotFound" -> "No such file or directory (os error 2)"
      [] kind = "PermissionDenied" -> "Permission denied (os error 13)"
      [] kind = "NotADirectory" -> "Not a directory (os error 20)"
      [] OTHER -> ""

\* ------------------------------------------------------------ PushdError
NoError == [variant |-> "None", path |-> "", kind |-> ""]
GetCurrentDir(k) == [variant |-> "GetCurrentDir", path |-> "", kind |-> k]
SetCurrentDir(p, k) == [variant |-> "SetCurrentDir", path |-> p, kind |-> k]

\* #[error(...)] Display of PushdError, as a sequence of text pieces
Display(e) ==
    CASE e.variant = "GetCurrentDir" ->
            <<"Could not get current directory: ", OsText(e.kind)>>
      [] e.variant = "SetCurrentDir" ->
            <<"Could not set current directory to ", e.path, ": ", OsText(e.kind)>>
      [] OTHER -> <<>>

\* std::error::Error::source(): both variants have a field named source
ErrSource(e) ==
    IF e.variant \in {"GetCurrentDir", "SetCurrentDir"}
    THEN [some |-> TRUE, kind |-> e.kind]
    ELSE [some |-> FALSE, kind |-> ""]

\* ------------------------------------------------------- OS primitives
\* env::current_dir(): fails with NotFound when the current directory has
\* been removed, otherwise returns its absolute path
current_dir(wd, f) ==
    IF f[wd] = "NotFound"
    THEN [ok |-> FALSE, val |-> "", kind |-> "NotFound"]
    ELSE [ok |-> TRUE, val |-> wd, kind |-> ""]

\* env::set_current_dir(p): succeeds iff p is an accessible directory
set_current_dir(p, f) ==
    IF f[p] = DirOk
    THEN [ok |-> TRUE, kind |-> ""]
    ELSE [ok |-> FALSE, kind |-> f[p]]

GetCall == [fn |-> "current_dir", path |-> ""]
SetCall(p) == [fn |-> "set_current_dir", path |-> p]

DebugMsg(m) == [level |-> "debug", msg |-> m]
WarnMsg(m) == [level |-> "warn", msg |-> m]

\* ------------------------------------------------------------- the guard
\* struct Pushd { orig, panic_on_err, popped }
NoPushd == [orig |-> "", panic_on_err |-> FALSE, popped |-> FALSE]

\* The outcome of one call: the Result, the guard value, the current
\* directory afterwards, the primitives called, the log lines, the panic
\* message (<<>> when the call returns normally)
Outcome(ok, err, pd, wd, calls, log, panic) ==
    [ok |-> ok, err |-> err, pd |-> pd, cwd |-> wd,
     calls |-> calls, log |-> log, panic |-> panic]

\* new with the switch error dropped: a guard is returned although the
\* switch to the target failed
new_ignores_switch_error(path, wd, f) ==
    LET q == current_dir(wd, f) IN
    IF ~q.ok
    THEN Outcome(FALSE, GetCurrentDir(q.kind), NoPushd, wd, <<GetCall>>, <<>>, <<>>)
    ELSE LET s == set_current_dir(path, f) IN
         Outcome(TRUE, NoError,
                 [orig |-> q.val, panic_on_err |-> TRUE, popped |-> FALSE],
                 IF s.ok THEN path ELSE wd, <<GetCall, SetCall(path)>>,
                 <<DebugMsg(<<"set current dir to ", path, " from ", q.val>>)>>,
                 <<>>)

\* new with the two statements swapped: the current directory is queried
\* after the switch
new_query_after_switch(path, wd, f) ==
    LET s == set_current_dir(path, f) IN
    IF ~s.ok
    THEN Outcome(FALSE, SetCurrentDir(path, s.kind), NoPushd, wd,
                 <<SetCall(path)>>, <<>>, <<>>)
    ELSE LET q == current_dir(path, f) IN
         IF ~q.ok
         THEN Outcome(FALSE, GetCurrentDir(q.kind), NoPushd, path,
                      <<SetCall(path), GetCall>>, <<>>, <<>>)
         ELSE Outcome(TRUE, NoError,
                      [orig |-> q.val, panic_on_err |-> TRUE, popped |-> FALSE],
                      path, <<SetCall(path), GetCall>>,
                      <<DebugMsg(<<"set current dir to ", path, " from ", q.val>>)>>,
                      <<>>)

\* Pushd::new
new(path, wd, f) ==
    LET q == current_dir(wd, f) IN
    IF ~q.ok
    THEN Outcome(FALSE, GetCurrentDir(q.kind), NoPushd, wd, <<GetCall>>, <<>>, <<>>)
    ELSE LET s == set_current_dir(path, f) IN
         IF ~s.ok
         THEN Outcome(FALSE, SetCurrentDir(path, s.kind), NoPushd, wd,
                      <<GetCall, SetCall(path)>>, <<>>, <<>>)
         ELSE Outcome(TRUE, NoError,
                      [orig |-> q.val, panic_on_err |-> TRUE, popped |-> FALSE],
                      path, <<GetCall, SetCall(path)>>,
                      <<DebugMsg(<<"set current dir to ", path, " from ", q.val>>)>>,
                      <<>>)

\* new_no_panic without the assignment to panic_on_err
new_no_panic_keeps_flag(path, wd, f) ==
    new(path, wd, f)

\* Pushd::new_no_panic
new_no_panic(path, wd, f) ==
    LET r == new(path, wd, f) IN
    IF ~r.ok THEN r
    ELSE [r EXCEPT !.pd.panic_on_err = FALSE]

\* pop with the popped test inverted
pop_inverted_check(self, wd, f) ==
    IF ~self.popped
    THEN Outcome(TRUE, NoError, self, wd, <<>>, <<>>, <<>>)
    ELSE LET dbg == DebugMsg(<<"setting current dir back to ", self.orig>>)
             s == set_current_dir(self.orig, f)
         IN  IF ~s.ok
             THEN Outcome(FALSE, SetCurrentDir(self.orig, s.kind), self, wd,
                          <<SetCall(self.orig)>>, <<dbg>>, <<>>)
             ELSE Outcome(TRUE, NoError, [self EXCEPT !.popped = TRUE], self.orig,
                          <<SetCall(self.orig)>>, <<dbg>>, <<>>)

\* pop that sets popped before the switch, so also when the switch fails
pop_marks_before_switch(self, wd, f) ==
    IF self.popped
    THEN Outcome(TRUE, NoError, self, wd, <<>>, <<>>, <<>>)
    ELSE LET dbg == DebugMsg(<<"setting current dir back to ", self.orig>>)
             s == set_current_dir(self.orig, f)
             marked == [self EXCEPT !.popped = TRUE]
         IN  IF ~s.ok
             THEN Outcome(FALSE, SetCurrentDir(self.orig, s.kind), marked, wd,
                          <<SetCall(self.orig)>>, <<dbg>>, <<>>)
             ELSE Outcome(TRUE, NoError, marked, self.orig,
                          <<SetCall(self.orig)>>, <<dbg>>, <<>>)

\* pop without the popped test
pop_unconditional(self, wd, f) ==
    LET dbg == DebugMsg(<<"setting current dir back to ", self.orig>>)
        s == set_current_dir(self.orig, f)
    IN  IF ~s.ok
        THEN Outcome(FALSE, SetCurrentDir(self.orig, s.kind), self, wd,
                     <<SetCall(self.orig)>>, <<dbg>>, <<>>)
        ELSE Outcome(TRUE, NoError, [self EXCEPT !.popped = TRUE], self.orig,
                     <<SetCall(self.orig)>>, <<dbg>>, <<>>)

\* pop that never sets popped
pop_never_marks(self, wd, f) ==
    IF self.popped
    THEN Outcome(TRUE, NoError, self, wd, <<>>, <<>>, <<>>)
    ELSE LET dbg == DebugMsg(<<"setting current dir back to ", self.orig>>)
             s == set_current_dir(self.orig, f)
         IN  IF ~s.ok
             THEN Outcome(FALSE, SetCurrentDir(self.orig, s.kind), self, wd,
                          <<SetCall(self.orig)>>, <<dbg>>, <<>>)
             ELSE Outcome(TRUE, NoError, self, self.orig,
                          <<SetCall(self.orig)>>, <<dbg>>, <<>>)

\* pop with the debug! moved after the switch, so logged on success only
pop_logs_after_switch(self, wd, f) ==
    IF self.popped
    THEN Outcome(TRUE, NoError, self, wd, <<>>, <<>>, <<>>)
    ELSE LET dbg == DebugMsg(<<"setting current dir back to ", self.orig>>)
             s == set_current_dir(self.orig, f)
         IN  IF ~s.ok
             THEN Outcome(FALSE, SetCurrentDir(self.orig, s.kind), self, wd,
                          <<SetCall(self.orig)>>, <<>>, <<>>)
             ELSE Outcome(TRUE, NoError, [self EXCEPT !.popped = TRUE], self.orig,
                          <<SetCall(self.orig)>>, <<dbg>>, <<>>)

\* pop that first asks for the current directory and gives up when that
\* fails
pop_queries_first(self, wd, f) ==
    IF self.popped
    THEN Outcome(TRUE, NoError, self, wd, <<>>, <<>>, <<>>)
    ELSE LET q == current_dir(wd, f)
             dbg == DebugMsg(<<"setting current dir back to ", self.orig>>)
             s == set_current_dir(self.orig, f)
         IN  IF ~q.ok
             THEN Outcome(FALSE, GetCurrentDir(q.kind), self, wd, <<GetCall>>, <<>>, <<>>)
             ELSE IF ~s.ok
             THEN Outcome(FALSE, SetCurrentDir(self.orig, s.kind), self, wd,
                          <<GetCall, SetCall(self.orig)>>, <<dbg>>, <<>>)
             ELSE Outcome(TRUE, NoError, [self EXCEPT !.popped = TRUE], self.orig,
                          <<GetCall, SetCall(self.orig)>>, <<dbg>>, <<>>)

\* Pushd::pop
pop(self, wd, f) ==
    IF self.popped
    THEN Outcome(TRUE, NoError, self, wd, <<>>, <<>>, <<>>)
    ELSE LET dbg == DebugMsg(<<"setting current dir back to ", self.orig>>)
             s == set_current_dir(self.orig, f)
         IN  IF ~s.ok
             THEN Outcome(FALSE, SetCurrentDir(self.orig, s.kind), self, wd,
                          <<SetCall(self.orig)>>, <<dbg>>, <<>>)
             ELSE Outcome(TRUE, NoError, [self EXCEPT !.popped = TRUE], self.orig,
                          <<SetCall(self.orig)>>, <<dbg>>, <<>>)

\* drop that switches back itself instead of going through the popped test
drop_ignores_popped(self, wd, f) ==
    LET r == pop([self EXCEPT !.popped = FALSE], wd, f)
        text == <<"Could not return to original dir: ">> \o Display(r.err)
        src == ErrSource(r.err)
    IN  IF r.ok THEN r
        ELSE IF ~self.panic_on_err
             THEN [r EXCEPT !.log = Append(@, WarnMsg(text))]
        ELSE IF src.some /\ src.kind = "NotFound"
             THEN r
        ELSE [r EXCEPT !.panic = text]

\* drop with the NotFound carve-out widened to every io::Error
drop_ignores_all_errors(self, wd, f) ==
    LET r == pop(self, wd, f)
        text == <<"Could not return to original dir: ">> \o Display(r.err)
        src == ErrSource(r.err)
    IN  IF r.ok THEN r
        ELSE IF ~self.panic_on_err
             THEN [r EXCEPT !.log = Append(@, WarnMsg(text))]
        ELSE IF src.some
             THEN r
        ELSE [r EXCEPT !.panic = text]

\* drop without the NotFound carve-out
drop_no_carve_out(self, wd, f) ==
    LET r == pop(self, wd, f)
        text == <<"Could not return to original dir: ">> \o Display(r.err)
    IN  IF r.ok THEN r
        ELSE IF ~self.panic_on_err
             THEN [r EXCEPT !.log = Append(@, WarnMsg(text))]
        ELSE [r EXCEPT !.panic = text]

\* drop with the NotFound carve-out tested before the policy flag
drop_carve_out_first(self, wd, f) ==
    LET r == pop(self, wd, f)
        text == <<"Could not return to original dir: ">> \o Display(r.err)
        src == ErrSource(r.err)
    IN  IF r.ok THEN r
        ELSE IF src.some /\ src.kind = "NotFound"
             THEN r
        ELSE IF ~self.panic_on_err
             THEN [r EXCEPT !.log = Append(@, WarnMsg(text))]
        ELSE [r EXCEPT !.panic = text]

\* drop without the panic_on_err test
drop_ignores_policy(self, wd, f) ==
    LET r == pop(self, wd, f)
        text == <<"Could not return to original dir: ">> \o Display(r.err)
        src == ErrSource(r.err)
    IN  IF r.ok THEN r
        ELSE IF src.some /\ src.kind = "NotFound"
             THEN r
        ELSE [r EXCEPT !.panic = text]

\* impl Drop for Pushd
drop(self, wd, f) ==
    LET r == pop(self, wd, f)
        text == <<"Could not return to original dir: ">> \o Display(r.err)
        src == ErrSource(r.err)
    IN  IF r.ok THEN r
        ELSE IF ~self.panic_on_err
             THEN [r EXCEPT !.log = Append(@, WarnMsg(text))]
        ELSE IF src.some /\ src.kind = "NotFound"
             THEN r
        ELSE [r EXCEPT !.panic = text]

\* ----------------------------------------------------------------- state
VARIABLES
    cwd,        \* the process-wide current directory
    fs,         \* status of every directory
    guard,      \* per slot: lifecycle state, constructor used, Pushd value
    hist,       \* per slot: counts of what the guard has done so far
    last,       \* the most recent step and the state it started from
    envSteps    \* steps taken so far by code other than the guard

vars == <<cwd, fs, guard, hist, last, envSteps>>

NoGuard == [st |-> "none", ctor |-> "", target |-> "", cwdAtNew |-> "",
            liveAtNew |-> {}, pd |-> NoPushd]
NoHist == [pops |-> 0, sets |-> 0, restores |-> 0, warns |-> 0, panics |-> 0, debugs |-> 0]
NoOutcome == Outcome(TRUE, NoError, NoPushd, "", <<>>, <<>>, <<>>)

Step(op, g, target, r) ==
    [op |-> op, g |-> g, target |-> target, r |-> r,
     cwdBefore |-> cwd,
     pdBefore |-> IF g \in DOMAIN guard THEN guard[g].pd ELSE NoPushd,
     histBefore |-> IF g \in DOMAIN guard THEN hist[g] ELSE NoHist]

CountLevel(log, level) == Len(SelectSeq(log, LAMBDA m : m.level = level))
CountSet(calls, p) == Len(SelectSeq(calls, LAMBDA c : c = SetCall(p)))

Init ==
    /\ cwd \in Dirs
    /\ fs = [d \in Dirs |-> DirOk]
    /\ guard = [g \in Guards |-> NoGuard]
    /\ hist = [g \in Guards |-> NoHist]
    /\ last = [op |-> "init", g |-> 0, target |-> "", r |-> NoOutcome,
               cwdBefore |-> cwd, pdBefore |-> NoPushd, histBefore |-> NoHist]
    /\ envSteps = 0

\* The guards that are being built or are alive
Alive == {h \in DOMAIN guard : guard[h].st \in {"queried", "live"}}

\* A constructor call; slots are used in order
Construct(g, ctor, path, r) ==
    /\ guard[g].st = "none"
    /\ \A h \in DOMAIN guard : h < g => guard[h].st # "none"
    /\ cwd' = r.cwd
    /\ guard' = [guard EXCEPT ![g] =
                    [st |-> IF r.ok THEN "live" ELSE "failed",
                     ctor |-> ctor, target |-> path, cwdAtNew |-> cwd,
                     liveAtNew |-> Alive, pd |-> r.pd]]
    /\ hist' = [hist EXCEPT ![g].debugs = @ + CountLevel(r.log, "debug")]
    /\ last' = Step(ctor, g, path, r)
    /\ UNCHANGED <<fs, envSteps>>

CallNew(g, path) == Construct(g, "new", path, new(path, cwd, fs))

CallNewNoPanic(g, path) == Construct(g, "new_no_panic", path, new_no_panic(path, cwd, fs))

Release(g, op, r) ==
    /\ cwd' = r.cwd
    /\ hist' = [hist EXCEPT
                  ![g].pops = @ + (IF op = "pop" THEN 1 ELSE 0),
                  ![g].sets = @ + CountSet(r.calls, guard[g].cwdAtNew),
                  ![g].restores = @ + (IF r.ok /\ CountSet(r.calls, guard[g].cwdAtNew) > 0
                                       THEN 1 ELSE 0),
                  ![g].warns = @ + CountLevel(r.log, "warn"),
                  ![g].debugs = @ + CountLevel(r.log, "debug"),
                  ![g].panics = @ + (IF r.panic # <<>> THEN 1 ELSE 0)]
    /\ last' = Step(op, g, "", r)
    /\ UNCHANGED <<fs, envSteps>>

\* An explicit pd.pop()
CallPop(g) ==
    /\ guard[g].st = "live"
    /\ hist[g].pops < MaxPops
    /\ LET r == pop(guard[g].pd, cwd, fs) IN
        /\ guard' = [guard EXCEPT ![g].pd = r.pd]
        /\ Release(g, "pop", r)

\* The guard goes out of scope
Drop(g) ==
    /\ guard[g].st = "live"
    /\ LET r == drop(guard[g].pd, cwd, fs) IN
        /\ guard' = [guard EXCEPT ![g].pd = r.pd, ![g].st = "dropped"]
        /\ Release(g, "drop", r)

\* Other code removes a directory, changes its permissions, replaces it by
\* a file, or puts it back.  A removed directory that is the current
\* directory stays removed for this process.
EnvSetStatus(d, s) ==
    /\ envSteps < MaxEnv
    /\ fs[d] # s
    /\ ~(fs[d] = "NotFound" /\ d = cwd)
    /\ fs' = [fs EXCEPT ![d] = s]
    /\ envSteps' = envSteps + 1
    /\ last' = Step("env", 0, d, NoOutcome)
    /\ UNCHANGED <<cwd, guard, hist>>

\* Other code changes the current directory
EnvChdir(d) ==
    /\ envSteps < MaxEnv
    /\ d # cwd
    /\ set_current_dir(d, fs).ok
    /\ cwd' = d
    /\ envSteps' = envSteps + 1
    /\ last' = Step("chdir", 0, d, NoOutcome)
    /\ UNCHANGED <<fs, guard, hist>>

Next ==
    \/ \E g \in Guards, p \in Dirs : CallNew(g, p)
    \/ \E g \in Guards, p \in Dirs : CallNewNoPanic(g, p)
    \/ \E g \in Guards : CallPop(g)
    \/ \E g \in Guards : Drop(g)
    \/ \E d \in Dirs, s \in DirStatus : EnvSetStatus(d, s)
    \/ \E d \in Dirs : EnvChdir(d)

Spec == Init /\ [][Next]_vars

TypeOK ==
    /\ cwd \in Dirs
    /\ fs \in [Dirs -> DirStatus]
    /\ envSteps \in 0..MaxEnv
    /\ \A g \in Guards : guard[g].st \in {"none", "failed", "live", "dropped"}

\* ---------------------------------------------------------------- claims
Range(s) == {s[i] : i \in 1..Len(s)}
Ctors == {"new", "new_no_panic"}
Releases == {"pop", "drop"}
LastGuard == guard[last.g]
\* the directory the process was in when the guard of the last step was built
LastOrig == guard[last.g].cwdAtNew
\* the last step was a release by a guard that no release has restored yet
LastUnreleased(op) == last.op = op /\ last.histBefore.restores = 0
NoSuccessYet == last.histBefore.restores = 0

\* C1: with the current directory C present and the target D valid, either
\* constructor succeeds and makes D the current directory; a guard dropped
\* without any explicit pop while C can still be entered leaves the current
\* directory equal to C.
C1_ScopeRestoresOriginal ==
    /\ (last.op \in Ctors /\ fs[last.cwdBefore] # "NotFound" /\ fs[last.target] = DirOk)
          => (last.r.ok /\ cwd = last.target /\ LastGuard.st = "live")
    /\ (last.op = "drop" /\ last.histBefore.pops = 0 /\ fs[LastOrig] = DirOk)
          => (cwd = LastOrig /\ last.r.panic = <<>>)

C1_Witness ==
    /\ last.op = "drop" /\ last.histBefore.pops = 0
    /\ fs[LastOrig] = DirOk
    /\ LastGuard.target # LastOrig
    /\ last.cwdBefore = LastGuard.target
    /\ cwd = LastOrig

\* C2: once a release of a guard has succeeded, every later pop or drop of
\* that guard returns Ok, calls no primitive, logs nothing, does not panic
\* and leaves the current directory as it found it.
C2_ReleaseIdempotent ==
    (last.op \in Releases /\ last.histBefore.restores >= 1)
        => /\ last.r.ok
           /\ last.r.calls = <<>>
           /\ last.r.log = <<>>
           /\ last.r.panic = <<>>
           /\ cwd = last.cwdBefore
           /\ hist[last.g].sets = last.histBefore.sets

C2_Witness ==
    /\ last.op = "drop" /\ last.histBefore.restores = 1
    /\ LastGuard.ctor = "new"
    /\ fs[LastOrig] = "PermissionDenied"
    /\ cwd # LastOrig
    /\ last.r.ok

\* C3: a guard built by new and not yet released, dropped while the switch
\* back fails with a kind other than NotFound, panics with a message that
\* holds the original path and the OS error text.
C3_StrictDropPanics ==
    (LastUnreleased("drop") /\ LastGuard.ctor = "new"
        /\ fs[LastOrig] \in ErrorKinds \ {"NotFound"})
        => /\ last.r.panic # <<>>
           /\ LastOrig \in Range(last.r.panic)
           /\ OsText(fs[LastOrig]) \in Range(last.r.panic)
           /\ hist[last.g].panics = 1

C3_Witness ==
    /\ LastUnreleased("drop") /\ LastGuard.ctor = "new"
    /\ fs[LastOrig] = "PermissionDenied"
    /\ "Permission denied (os error 13)" \in Range(last.r.panic)

\* C4: a guard built by new and not yet released, dropped while the original
\* directory is not found, does not panic, logs no warning and leaves the
\* current directory as it was before the failed switch.
C4_StrictDropNotFoundSilent ==
    (LastUnreleased("drop") /\ LastGuard.ctor = "new" /\ fs[LastOrig] = "NotFound")
        => /\ last.r.panic = <<>>
           /\ CountLevel(last.r.log, "warn") = 0
           /\ cwd = last.cwdBefore
           /\ ~last.r.ok

C4_Witness ==
    /\ LastUnreleased("drop") /\ LastGuard.ctor = "new"
    /\ fs[LastOrig] = "NotFound"
    /\ last.cwdBefore = LastGuard.target
    /\ cwd = LastGuard.target
    /\ cwd # LastOrig

\* C5: a guard built by new_no_panic never panics; when its drop fails to
\* switch back, for any error kind including NotFound, it logs exactly one
\* warning and leaves the current directory as it was.
C5_LenientDropWarns ==
    /\ (last.op = "drop" /\ LastGuard.ctor = "new_no_panic")
          => (last.r.panic = <<>> /\ hist[last.g].panics = 0)
    /\ (LastUnreleased("drop") /\ LastGuard.ctor = "new_no_panic"
          /\ fs[LastOrig] \in ErrorKinds)
          => /\ CountLevel(last.r.log, "warn") = 1
             /\ hist[last.g].warns = 1
             /\ cwd = last.cwdBefore
    /\ (LastUnreleased("drop") /\ LastGuard.ctor = "new" /\ fs[LastOrig] = "NotFound")
          => hist[last.g].warns = 0

C5_Witness ==
    /\ LastUnreleased("drop") /\ LastGuard.ctor = "new_no_panic"
    /\ fs[LastOrig] = "NotFound"
    /\ hist[last.g].warns = 1
    /\ cwd = LastGuard.target

\* C6: a constructor whose current_dir query fails returns GetCurrentDir and
\* does not call set_current_dir; one whose switch fails returns
\* SetCurrentDir with the target path; both leave the current directory
\* unchanged and produce no guard, so nothing is ever released for them.
C6_ConstructionAtomic ==
    /\ (last.op \in Ctors /\ ~current_dir(last.cwdBefore, fs).ok)
          => /\ ~last.r.ok
             /\ last.r.err = GetCurrentDir(current_dir(last.cwdBefore, fs).kind)
             /\ \A i \in 1..Len(last.r.calls) : last.r.calls[i].fn # "set_current_dir"
             /\ cwd = last.cwdBefore
    /\ (last.op \in Ctors /\ current_dir(last.cwdBefore, fs).ok /\ fs[last.target] # DirOk)
          => /\ ~last.r.ok
             /\ last.r.err = SetCurrentDir(last.target, fs[last.target])
             /\ cwd = last.cwdBefore
    /\ (last.op \in Ctors /\ ~last.r.ok)
          => (LastGuard.st = "failed" /\ last.r.pd = NoPushd)
    /\ \A g \in Guards : guard[g].st = "failed"
          => /\ hist[g].pops = 0 /\ hist[g].sets = 0 /\ hist[g].restores = 0
             /\ hist[g].warns = 0 /\ hist[g].panics = 0

C6_Witness ==
    /\ last.op \in Ctors
    /\ current_dir(last.cwdBefore, fs).ok
    /\ fs[last.target] = "PermissionDenied"
    /\ LastGuard.st = "failed"
    /\ cwd = last.cwdBefore

\* C7: an explicit pop whose switch back fails returns SetCurrentDir with the
\* original directory as path, leaves popped false, leaves the current
\* directory, orig and panic_on_err unchanged, and neither panics nor warns,
\* for either constructor and every error kind.
C7_FailedPopPropagates ==
    (LastUnreleased("pop") /\ fs[LastOrig] \in ErrorKinds)
        => /\ ~last.r.ok
           /\ last.r.err = SetCurrentDir(LastOrig, fs[LastOrig])
           /\ ~LastGuard.pd.popped
           /\ LastGuard.pd = last.pdBefore
           /\ cwd = last.cwdBefore
           /\ last.r.panic = <<>>
           /\ CountLevel(last.r.log, "warn") = 0
           /\ hist[last.g].restores = 0

C7_Witness ==
    /\ LastUnreleased("pop") /\ LastGuard.ctor = "new"
    /\ fs[LastOrig] = "NotFound"
    /\ ~last.r.ok
    /\ ~LastGuard.pd.popped
C9_OrigCapturedBeforeSwitch ==
    /\ \A g \in Guards : guard[g].st \in {"live", "dropped"}
          => guard[g].pd.orig = guard[g].cwdAtNew
    /\ (last.op \in Ctors /\ last.r.ok) => last.r.pd.orig = last.cwdBefore
    /\ last.op \in Releases => LastGuard.pd.orig = last.pdBefore.orig

C9_Witness ==
    /\ last.op = "drop"
    /\ ~last.r.ok
    /\ hist[last.g].pops >= 1
    /\ LastGuard.target # LastOrig
    /\ LastGuard.pd.orig = LastOrig

\* Two constructor outcomes that agree on everything but panic_on_err
SameButFlag(a, b) ==
    /\ a.ok = b.ok
    /\ a.err = b.err
    /\ a.cwd = b.cwd
    /\ a.calls = b.calls
    /\ a.log = b.log
    /\ a.panic = b.panic
    /\ a.pd.orig = b.pd.orig
    /\ a.pd.popped = b.pd.popped

\* C10: from the same current directory, target and filesystem, new and
\* new_no_panic call the same primitives, fail with the same error, leave the
\* same current directory and give guards with the same orig and popped =
\* false; panic_on_err is true for new, false for new_no_panic, and stays so.
C10_ConstructorsDifferOnlyInFlag ==
    /\ last.op = "new" => SameButFlag(last.r, new_no_panic(last.target, last.cwdBefore, fs))
    /\ last.op = "new_no_panic" => SameButFlag(last.r, new(last.target, last.cwdBefore, fs))
    /\ (last.op \in Ctors /\ last.r.ok)
          => (~last.r.pd.popped /\ last.r.pd.panic_on_err = (last.op = "new"))
    /\ \A g \in Guards : guard[g].st \in {"live", "dropped"}
          => guard[g].pd.panic_on_err = (guard[g].ctor = "new")

C10_Witness ==
    /\ last.op = "drop"
    /\ LastGuard.ctor = "new_no_panic"
    /\ ~LastGuard.pd.panic_on_err
    /\ hist[last.g].pops >= 1
    /\ new(LastGuard.target, LastOrig, fs).pd.panic_on_err
\* C11: a drop that follows one or more failed explicit pops switches back
\* again and is judged on that attempt alone: with the original directory
\* enterable it makes it the current directory without panic or warning;
\* otherwise it panics (new, kind other than NotFound), stays silent (new,
\* NotFound) or warns once (new_no_panic).
C11_DropRetriesAfterFailedPop ==
    (LastUnreleased("drop") /\ last.histBefore.pops >= 1)
        => /\ CountSet(last.r.calls, LastOrig) = 1
           /\ fs[LastOrig] = DirOk
                => /\ cwd = LastOrig /\ last.r.ok
                   /\ last.r.panic = <<>> /\ CountLevel(last.r.log, "warn") = 0
           /\ (fs[LastOrig] \in ErrorKinds \ {"NotFound"} /\ LastGuard.ctor = "new")
                => /\ last.r.panic = <<"Could not return to original dir: ">>
                                        \o Display(SetCurrentDir(LastOrig, fs[LastOrig]))
                   /\ CountLevel(last.r.log, "warn") = 0 /\ cwd = last.cwdBefore
           /\ (fs[LastOrig] = "NotFound" /\ LastGuard.ctor = "new")
                => /\ last.r.panic = <<>> /\ CountLevel(last.r.log, "warn") = 0
                   /\ cwd = last.cwdBefore
           /\ (fs[LastOrig] \in ErrorKinds /\ LastGuard.ctor = "new_no_panic")
                => /\ last.r.panic = <<>> /\ CountLevel(last.r.log, "warn") = 1
                   /\ cwd = last.cwdBefore

C11_Witness ==
    /\ LastUnreleased("drop")
    /\ last.histBefore.pops >= 1
    /\ last.histBefore.sets >= 1
    /\ LastGuard.ctor = "new"
    /\ last.cwdBefore # LastOrig
    /\ last.r.ok
    /\ cwd = LastOrig

\* C12: popped is false when the guard is built, is never reset, and is true
\* exactly when a pop or drop of this guard has switched to the original
\* directory; a drop that switches back sets it too.
C12_PoppedOneWay ==
    /\ (last.op \in Ctors /\ last.r.ok) => ~LastGuard.pd.popped
    /\ (last.op \in Releases /\ last.pdBefore.popped) => LastGuard.pd.popped
    /\ last.op \in Releases
          => (LastGuard.pd.popped <=>
                (last.pdBefore.popped \/ (CountSet(last.r.calls, LastOrig) = 1 /\ last.r.ok)))
    /\ (LastUnreleased("drop") /\ fs[LastOrig] = DirOk) => LastGuard.pd.popped
    /\ \A g \in DOMAIN guard : guard[g].st \in {"live", "dropped"}
          => (guard[g].pd.popped <=> hist[g].restores >= 1)

C12_Witness ==
    /\ LastUnreleased("drop")
    /\ last.histBefore.pops = 0
    /\ ~last.pdBefore.popped
    /\ LastGuard.pd.popped
    /\ LastGuard.st = "dropped"

\* C14 as written: a pop or drop whose switch back fails logs no debug line.
C14_FailedReleaseLogsNoDebug ==
    (last.op \in Releases /\ ~last.r.ok) => CountLevel(last.r.log, "debug") = 0

\* C14 amended: a constructor logs one debug line exactly when it succeeds;
\* a pop or drop logs one debug line exactly when it attempts the switch
\* back, whether the switch succeeds or fails, and none on a guard already
\* released; a warning is logged only by the failed drop of a guard built by
\* new_no_panic.
C14_DebugBeforeSwitchBack ==
    /\ last.op \in Ctors
          => /\ CountLevel(last.r.log, "debug") = (IF last.r.ok THEN 1 ELSE 0)
             /\ last.r.ok => cwd = last.target
    /\ last.op \in Releases
          => CountLevel(last.r.log, "debug") = CountSet(last.r.calls, LastOrig)
    /\ (last.op \in Releases /\ NoSuccessYet /\ fs[LastOrig] \in ErrorKinds)
          => CountLevel(last.r.log, "debug") = 1
    /\ last.op \in Ctors \cup Releases
          => (CountLevel(last.r.log, "warn") > 0
                <=> (last.op = "drop" /\ LastGuard.ctor = "new_no_panic" /\ ~last.r.ok))

C14_Witness ==
    /\ LastUnreleased("pop")
    /\ ~last.r.ok
    /\ CountLevel(last.r.log, "debug") = 1
    /\ cwd = last.cwdBefore

\* C15: a drop panics exactly when the guard was built by new, no release of
\* it has succeeded, and the switch back of this drop fails with a kind other
\* than NotFound; constructors and pop never panic.
C15_PanicExactlyWhen ==
    /\ last.op = "drop"
          => (last.r.panic # <<>>
                <=> /\ LastGuard.ctor = "new"
                    /\ NoSuccessYet
                    /\ fs[LastOrig] \in ErrorKinds \ {"NotFound"})
    /\ last.op \in Ctors \cup {"pop"} => last.r.panic = <<>>
    /\ \A g \in DOMAIN guard : hist[g].panics > 0 => guard[g].st = "dropped"

C15_Witness ==
    /\ last.op = "drop"
    /\ LastGuard.ctor = "new_no_panic"
    /\ NoSuccessYet
    /\ fs[LastOrig] = "NotADirectory"
    /\ last.r.panic = <<>>

\* C17: the first successful pop or drop makes the directory captured by the
\* constructor the current directory from whatever directory the process is
\* in at that moment, the target or not, present or removed.
C17_RestoresCapturedFromAnywhere ==
    /\ (last.op \in Releases /\ NoSuccessYet /\ fs[LastOrig] = DirOk)
          => (last.r.ok /\ cwd = LastOrig /\ hist[last.g].restores = 1)
    /\ (last.op \in Releases /\ NoSuccessYet /\ last.r.ok) => cwd = LastOrig
    /\ last.op \in Releases
          => \A i \in 1..Len(last.r.calls) : last.r.calls[i].fn # "current_dir"

C17_Witness ==
    /\ last.op \in Releases /\ NoSuccessYet
    /\ last.cwdBefore # LastGuard.target
    /\ last.cwdBefore # LastOrig
    /\ LastGuard.target # LastOrig
    /\ cwd = LastOrig
\* ------------------------------------------- two guards in one thread
\* Two Pushd values built one after the other by the same thread, every
\* directory present and enterable, nothing else touching the current
\* directory.
Slots == {1, 2}

InitNest ==
    /\ cwd \in Dirs
    /\ fs = [d \in Dirs |-> DirOk]
    /\ guard = [g \in Slots |-> NoGuard]
    /\ hist = [g \in Slots |-> NoHist]
    /\ last = [op |-> "init", g |-> 0, target |-> "", r |-> NoOutcome,
               cwdBefore |-> cwd, pdBefore |-> NoPushd, histBefore |-> NoHist]
    /\ envSteps = 0

NextNest ==
    \/ \E g \in Slots, p \in Dirs : CallNew(g, p)
    \/ \E g \in Slots, p \in Dirs : CallNewNoPanic(g, p)
    \/ \E g \in Slots : Drop(g)

SpecNest == InitNest /\ [][NextNest]_vars

\* the second guard was built while the first was alive
Nested == guard[2].st \in {"live", "dropped"} /\ guard[2].liveAtNew = {1}
BothDropped == \A g \in Slots : guard[g].st = "dropped"

\* C16: with G1 built from C to D1 and G2 built from D1 to D2 while G1 is
\* alive, G2's orig is D1; dropping G2 then G1 ends in C, dropping G1 then G2
\* ends in D1.
C16_NestedGuardsUnwind ==
    /\ Nested => /\ guard[2].cwdAtNew = guard[1].target
                 /\ guard[2].pd.orig = guard[1].target
                 /\ guard[1].pd.orig = guard[1].cwdAtNew
    /\ (Nested /\ BothDropped /\ last.op = "drop" /\ last.g = 1)
          => cwd = guard[1].cwdAtNew
    /\ (Nested /\ BothDropped /\ last.op = "drop" /\ last.g = 2)
          => cwd = guard[1].target
    /\ (Nested /\ last.op = "drop" /\ last.g = 2 /\ guard[1].st = "live")
          => cwd = guard[1].target

C16_Witness ==
    /\ Nested /\ BothDropped
    /\ last.op = "drop" /\ last.g = 1
    /\ Cardinality({guard[1].cwdAtNew, guard[1].target, guard[2].target}) = 3
    /\ cwd = guard[1].cwdAtNew

\* ------------------------------------------------ two guards, two threads
\* Each thread builds one Pushd and drops it.  The two system calls of new
\* (current_dir at line 78, set_current_dir at line 79) are separate steps,
\* and nothing orders the steps of one thread against those of the other.
Threads == {1, 2}
StartDir == "/work"

InitRace ==
    /\ cwd = StartDir
    /\ fs = [d \in Dirs |-> DirOk]
    /\ guard = [g \in Threads |-> NoGuard]
    /\ hist = [g \in Threads |-> NoHist]
    /\ last = [op |-> "init", g |-> 0, target |-> "", r |-> NoOutcome,
               cwdBefore |-> cwd, pdBefore |-> NoPushd, histBefore |-> NoHist]
    /\ envSteps = 0

\* Thread g enters a constructor and reads the current directory
RaceQuery(g, ctor, path) ==
    /\ guard[g].st = "none"
    /\ current_dir(cwd, fs).ok
    /\ guard' = [guard EXCEPT ![g] =
                    [st |-> "queried", ctor |-> ctor, target |-> path,
                     cwdAtNew |-> current_dir(cwd, fs).val,
                     liveAtNew |-> Alive, pd |-> NoPushd]]
    /\ last' = Step("query", g, path, NoOutcome)
    /\ UNCHANGED <<cwd, fs, hist, envSteps>>

\* Thread g goes on with its constructor: the switch to the target, with the
\* directory it read earlier as orig
RaceSwitch(g) ==
    /\ guard[g].st = "queried"
    /\ LET r == IF guard[g].ctor = "new"
                THEN new(guard[g].target, guard[g].cwdAtNew, fs)
                ELSE new_no_panic(guard[g].target, guard[g].cwdAtNew, fs)
       IN  /\ cwd' = (IF r.ok THEN r.cwd ELSE cwd)
           /\ guard' = [guard EXCEPT ![g].st = IF r.ok THEN "live" ELSE "failed",
                                     ![g].pd = r.pd]
           /\ hist' = [hist EXCEPT ![g].debugs = @ + CountLevel(r.log, "debug")]
           /\ last' = Step(guard[g].ctor, g, guard[g].target, r)
    /\ UNCHANGED <<fs, envSteps>>

NextRace ==
    \/ \E g \in Threads, c \in Ctors, p \in Dirs : RaceQuery(g, c, p)
    \/ \E g \in Threads : RaceSwitch(g)
    \/ \E g \in Threads : Drop(g)

SpecRace == InitRace /\ [][NextRace]_vars

\* both guards are gone
AllDone == \A g \in Threads : guard[g].st = "dropped"
\* no thread entered its constructor while the other's guard was being
\* built or was alive
Serialized == \A g \in Threads : guard[g].liveAtNew = {}

\* C13: when one thread's guard is built and dropped before the other
\* thread enters its constructor, the process ends in the directory it
\* started in; when the lifetimes overlap it can end elsewhere, as nothing
\* keeps the steps of the two threads apart.
C13_SerializedLifetimesRestore ==
    /\ (AllDone /\ Serialized) => cwd = StartDir
    /\ \A g \in Threads : (guard[g].st = "dropped" /\ guard[g].liveAtNew = {}
                             /\ \A h \in Threads \ {g} : guard[h].st = "none")
          => cwd = StartDir
    /\ \A g \in Threads : guard[g].st \in {"live", "dropped"}
          => guard[g].pd.orig = guard[g].cwdAtNew

C13_Witness ==
    /\ AllDone
    /\ ~Serialized
    /\ \A g \in Threads : hist[g].restores = 1 /\ hist[g].panics = 0
    /\ cwd # StartDir

====
